---- MODULE Spec2Model ----
(***************************************************************************)
(* Model of src/app/api/recommend/route.ts: the recommendation endpoint.   *)
(* GET answers from a static file.                                         *)
(* POST loads the latent-factor model once, validates the ratings, builds  *)
(* the user vector, scores every catalog row, selects the top-K pool with  *)
(* a min-heap, enriches the head of the pool with TMDB metadata through a  *)
(* bounded pool of workers that share a cursor and a process-wide cache,   *)
(* and returns the pool in rank order.                                     *)
(*                                                                         *)
(* Numbers.  Every factor and every rating of the model is an integer, so  *)
(* the user vector and the scores are exact rationals; they are held as    *)
(* integers in units of 1/ScoreDen.  The "score" field of a response entry *)
(* is the result of toFixed(6) and is held in units of 10^-6.  Float32     *)
(* rounding of the accumulations is not modelled.                          *)
(*                                                                         *)
(* Scheduling.  JavaScript runs each synchronous stretch of code to its    *)
(* next await without interleaving, so every action below is one such      *)
(* stretch: the code between two suspension points of one async function.  *)
(***************************************************************************)
EXTENDS Integers, Sequences, FiniteSets, TLC

\* ------------------------------------------------------------------ bounds
\* Number of POST requests that arrive over the run.
MaxReqs == 2
\* Longest rating list a request body carries.
MaxRatings == 2
\* Selector specification: largest K and largest score tried.
MaxK == 3
MaxScore == 2

\* ------------------------------------------------- program constants
\* The source values are 2500, 600 and 12; the model keeps their order
\* (TMDB_CONCURRENCY < ENRICH_LIMIT < TOP_K_POOL) on a five-row catalog.
TOP_K_POOL == 4
ENRICH_LIMIT == 3
TMDB_CONCURRENCY == 2
\* the page size of GET, as in the source
GET_LIMIT == 50

\* null, for fields that hold a string or null
NULL == "null"
\* null, for the tmdbId field (a number or null)
NULL_ID == 0 - 1

\* ------------------------------------------------- catalog artifacts
\* data/movie_ids.json : row index -> movieId
CatalogIds == <<1, 2, 3, 4, 5>>
\* data/item_factors.f32, row-major
CatalogFactors == <<1, 0,   0, 1,   1, 1,   2, 0 - 1,   1, 0>>
\* data/item_factors_shape.json
ShapeRows == Len(CatalogIds)
ShapeCols == Len(CatalogFactors) \div Len(CatalogIds)
\* data/movieId_to_tmdb.json : movieId -> tmdbId (movie 4 has none;
\* movies 1 and 3 share one, so do 2 and 5)
CatalogTmdb == [m \in {1, 2, 3, 5} |-> IF m \in {1, 3} THEN 7 ELSE 8]
TmdbIds == {CatalogTmdb[m] : m \in DOMAIN CatalogTmdb}

\* ------------------------------------------------- artifacts on disk
\* The four files of data/ as loadModelOnce reads them.  shapeOk, idsOk and
\* tmdbOk say that the file exists and parses as JSON, factorsOk that the
\* file exists; rows and cols are the fields of the shape file, factors the
\* floats of item_factors.f32 (byteLength / 4 of them), ids the id list,
\* tmdb the movieId -> tmdbId object.
Artifacts(shapeOk, r, c, factorsOk, factors, idsOk, ids, tmdbOk, tmdb) ==
  [shapeOk |-> shapeOk, rows |-> r, cols |-> c, factorsOk |-> factorsOk,
   factors |-> factors, idsOk |-> idsOk, ids |-> ids, tmdbOk |-> tmdbOk, tmdb |-> tmdb]

\* the catalog above
GoodArt ==
  Artifacts(TRUE, ShapeRows, ShapeCols, TRUE, CatalogFactors, TRUE, CatalogIds,
            TRUE, CatalogTmdb)

\* its first three rows as a catalog of their own: items 1, 2, 3 with the
\* factor vectors [1,0], [0,1], [1,1]
SmallRows == ShapeRows - 2
SmallArt ==
  Artifacts(TRUE, SmallRows, ShapeCols, TRUE, SubSeq(CatalogFactors, 1, SmallRows * ShapeCols),
            TRUE, SubSeq(CatalogIds, 1, SmallRows), TRUE, CatalogTmdb)

\* ------------------------------------------------- process and model store
VARIABLES
  TMDB_KEY,      \* line 5: whether process.env.TMDB_API_KEY is set
  tmdbCache,     \* line 35: tmdbId -> payload, for the ids that are cached
  art,           \* the files of data/
  store,         \* lines 78-84: rows, cols, itemFactors, movieIds, movieIdToIndex, movieIdToTmdb
  LOADED,        \* line 77
  loads          \* history: executions of the body of loadModelOnce

\* lines 78-84 before any load: rows = cols = 0, the others unassigned
Unloaded ==
  [rows |-> 0, cols |-> 0, itemFactors |-> <<>>, movieIds |-> <<>>,
   movieIdToIndex |-> <<>>, movieIdToTmdb |-> <<>>]

rows == store.rows
cols == store.cols
itemFactors == store.itemFactors
movieIds == store.movieIds
movieIdToIndex == store.movieIdToIndex
movieIdToTmdb == store.movieIdToTmdb

\* lines 109-110: the loop sets ids[i] -> i in increasing i, so a later row
\* overwrites an earlier one with the same id.
IndexMapOf(ids) ==
  [m \in {ids[k] : k \in 1..Len(ids)} |->
     (CHOOSE k \in 1..Len(ids) :
        /\ ids[k] = m
        /\ \A k2 \in 1..Len(ids) : ids[k2] = m => k2 <= k) - 1]

\* what a call of loadModelOnce leaves behind
LoadResult(st, loaded, threw, ran) ==
  [store |-> st, LOADED |-> loaded, threw |-> threw, ran |-> ran]

\* loadModelOnce without the test of line 87: every call loads
loadModelOnce_NoGate(st, loaded, a) ==
  IF ~a.shapeOk THEN LoadResult(st, loaded, TRUE, TRUE)
  ELSE LET s1 == [st EXCEPT !.rows = a.rows, !.cols = a.cols]
       IN IF ~a.factorsOk THEN LoadResult(s1, loaded, TRUE, TRUE)
          ELSE LET s2 == [s1 EXCEPT !.itemFactors = a.factors]
               IN IF ~a.idsOk THEN LoadResult(s2, loaded, TRUE, TRUE)
                  ELSE LET s3 == [s2 EXCEPT !.movieIds = a.ids,
                                            !.movieIdToIndex = IndexMapOf(a.ids)]
                       IN IF ~a.tmdbOk THEN LoadResult(s3, loaded, TRUE, TRUE)
                          ELSE LoadResult([s3 EXCEPT !.movieIdToTmdb = a.tmdb],
                                          TRUE, FALSE, TRUE)

\* lines 86-119: the call on store st with flag loaded and files a.  A file
\* that is missing or does not parse throws at its readFileSync / JSON.parse
\* and leaves the assignments made before it.
loadModelOnce(st, loaded, a) ==
  IF loaded THEN LoadResult(st, TRUE, FALSE, FALSE)
  ELSE IF ~a.shapeOk THEN LoadResult(st, FALSE, TRUE, TRUE)
  ELSE LET s1 == [st EXCEPT !.rows = a.rows, !.cols = a.cols]
       IN IF ~a.factorsOk THEN LoadResult(s1, FALSE, TRUE, TRUE)
          ELSE LET s2 == [s1 EXCEPT !.itemFactors = a.factors]
               IN IF ~a.idsOk THEN LoadResult(s2, FALSE, TRUE, TRUE)
                  ELSE LET s3 == [s2 EXCEPT !.movieIds = a.ids,
                                            !.movieIdToIndex = IndexMapOf(a.ids)]
                       IN IF ~a.tmdbOk THEN LoadResult(s3, FALSE, TRUE, TRUE)
                          ELSE LoadResult([s3 EXCEPT !.movieIdToTmdb = a.tmdb],
                                          TRUE, FALSE, TRUE)

\* ------------------------------------------------- numbers
RECURSIVE Gcd(_, _)
Gcd(a, b) == IF b = 0 THEN a ELSE Gcd(b, a % b)

RECURSIVE LcmUpTo(_)
LcmUpTo(n) == IF n <= 1 THEN 1 ELSE (LcmUpTo(n - 1) * n) \div Gcd(LcmUpTo(n - 1), n)

\* Scores and user-vector components are integers in units of 1/ScoreDen.
\* The denominator of buildUserVector is a sum of |rating - 3| <= 2 over at
\* most MaxRatings ratings, so it divides ScoreDen.
ScoreDen == LcmUpTo(2 * MaxRatings)

Abs(x) == IF x < 0 THEN 0 - x ELSE x

Min(a, b) == IF a < b THEN a ELSE b

\* Math.trunc of a number held in halves (m2 = 2 * value): toward zero.
Trunc(m2) == IF m2 >= 0 THEN m2 \div 2 ELSE 0 - ((0 - m2) \div 2)

\* Number(x.toFixed(6)) of a score held in units of 1/ScoreDen; the result
\* is in units of 10^-6.  toFixed picks the integer n with n / 10^6 closest
\* to x, the larger n of two equally close ones.
toFixed6(k) == (2 * k * 1000000 + ScoreDen) \div (2 * ScoreDen)

\* A value in units of 10^-6 and one in units of 1/ScoreDen are the same number.
SameNumber(micro, k) == micro * ScoreDen = k * 1000000

\* ------------------------------------------------- rating validation
\* A record of body.ratings.  shape "null" is a null array entry; mnum and
\* rnum say whether typeof movieId / rating is "number"; m2 is twice the
\* movieId (so that halves can be truncated); rating is the rating (of a
\* numeric string: the number it reads as).
RawRecord(shape, mnum, m2, rnum, rating) ==
  [shape |-> shape, mnum |-> mnum, m2 |-> m2, rnum |-> rnum, rating |-> rating]

\* POST lines 272-273: the ratings array of the body, [] when the body is
\* not JSON or has no ratings array.
RatingsOf(body) == IF body.json /\ body.isArray THEN body.ratings ELSE <<>>

\* POST lines 276-279
IsNumberPair(r) == r.shape = "object" /\ r.mnum /\ r.rnum
Normalize(r) == [movieId |-> Trunc(r.m2), rating |-> r.rating]

\* the range test with the bounds left out
InRange_Open(c) == c.rating > 1 /\ c.rating < 5

\* line 279
InRange(c) == c.rating >= 1 /\ c.rating <= 5

RECURSIVE Clean(_)
Clean(ratings) ==
  IF ratings = <<>> THEN <<>>
  ELSE LET r == Head(ratings)
       IN (IF IsNumberPair(r) /\ InRange(Normalize(r)) THEN <<Normalize(r)>> ELSE <<>>)
          \o Clean(Tail(ratings))

\* POST line 282
ExcludeOf(clean) == {clean[n].movieId : n \in 1..Len(clean)}

\* ------------------------------------------------- user vector and scores
\* itemFactors[base + j], 0-based
Factor(idx, j) == itemFactors[idx * cols + j + 1]

RECURSIVE AccumulateFrom(_, _, _)
\* lines 135-148: the loop over the ratings from position n on; st holds
\* the accumulator u (unscaled) and denom
AccumulateFrom(ratings, n, st) ==
  IF n > Len(ratings) THEN st
  ELSE LET r == ratings[n]
           known == r.movieId \in DOMAIN movieIdToIndex
           w == r.rating - 3
       IN IF ~known \/ w = 0 THEN AccumulateFrom(ratings, n + 1, st)
          ELSE LET idx == movieIdToIndex[r.movieId]
               IN AccumulateFrom(ratings, n + 1,
                    [u |-> [j \in 0..(cols - 1) |-> st.u[j] + w * Factor(idx, j)],
                     denom |-> st.denom + Abs(w)])

RECURSIVE LastOnly(_)
\* the ratings with every occurrence of an item but its last removed
LastOnly(ratings) ==
  IF ratings = <<>> THEN <<>>
  ELSE (IF \E m \in 2..Len(ratings) : ratings[m].movieId = ratings[1].movieId
        THEN <<>> ELSE <<Head(ratings)>>)
       \o LastOnly(Tail(ratings))

\* the accumulation with last-write-wins on a repeated item
Accumulated_LastWins(ratings) ==
  AccumulateFrom(LastOnly(ratings), 1, [u |-> [j \in 0..(cols - 1) |-> 0], denom |-> 0])

\* lines 132-133 and 135-148: u and denom after the loop
Accumulated(ratings) ==
  AccumulateFrom(ratings, 1, [u |-> [j \in 0..(cols - 1) |-> 0], denom |-> 0])

\* the accumulated vector divided by the number of ratings
buildUserVector_DivideByCount(ratings) ==
  LET st == Accumulated(ratings)
  IN [j \in 0..(cols - 1) |->
        IF Len(ratings) > 0 THEN (st.u[j] * ScoreDen) \div Len(ratings)
        ELSE st.u[j] * ScoreDen]

\* lines 130-154; components in units of 1/ScoreDen
buildUserVector(ratings) ==
  LET st == Accumulated(ratings)
  IN [j \in 0..(cols - 1) |->
        IF st.denom > 0 THEN (st.u[j] * ScoreDen) \div st.denom
        ELSE st.u[j] * ScoreDen]

RECURSIVE DotFrom(_, _, _)
DotFrom(itemIndex, userVec, j) ==
  IF j >= cols THEN 0
  ELSE Factor(itemIndex, j) * userVec[j] + DotFrom(itemIndex, userVec, j + 1)

\* lines 121-128
dotItemWithUser(itemIndex, userVec) == DotFrom(itemIndex, userVec, 0)

\* scoring that reads the metadata cache: a row whose tmdbId is cached
\* gets a bonus
ScoresOf_CacheBonus(u) ==
  [i \in 0..(rows - 1) |->
     dotItemWithUser(i, u)
       + (IF movieIds[i + 1] \in DOMAIN movieIdToTmdb
             /\ movieIdToTmdb[movieIds[i + 1]] \in DOMAIN tmdbCache
          THEN ScoreDen ELSE 0)]

\* POST lines 288-289: scores[i], 0-based
ScoresOf(u) == [i \in 0..(rows - 1) |-> dotItemWithUser(i, u)]

\* ------------------------------------------------- MinHeap
\* TopItem, line 159
TopItem(mid, sc) == [movieId |-> mid, score |-> sc]

\* a[i], 0-based, of the heap array
At(a, i) == a[i + 1]

\* [a[p], a[i]] = [a[i], a[p]]
Swap(a, i, j) == [a EXCEPT ![i + 1] = a[j + 1], ![j + 1] = a[i + 1]]

RECURSIVE bubbleUp(_, _)
\* lines 187-194
bubbleUp(a, i) ==
  IF i <= 0 THEN a
  ELSE LET p == (i - 1) \div 2
       IN IF At(a, p).score <= At(a, i).score THEN a
          ELSE bubbleUp(Swap(a, p, i), p)

RECURSIVE bubbleDown(_, _)
\* lines 195-207
bubbleDown(a, i) ==
  LET n == Len(a)
      l == i * 2 + 1
      r == i * 2 + 2
      m1 == IF l < n /\ At(a, l).score < At(a, i).score THEN l ELSE i
      m == IF r < n /\ At(a, r).score < At(a, m1).score THEN r ELSE m1
  IN IF m = i THEN a ELSE bubbleDown(Swap(a, m, i), m)

\* lines 169-172
push(a, x) == bubbleUp(Append(a, x), Len(a))

\* pop() that drops the last element instead of the minimum
pop_DropLast(a) == IF Len(a) = 0 THEN a ELSE SubSeq(a, 1, Len(a) - 1)

\* lines 173-182: the array after pop() (the caller drops the popped top)
pop(a) ==
  IF Len(a) = 0 THEN a
  ELSE LET last == a[Len(a)]
           rest == SubSeq(a, 1, Len(a) - 1)
       IN IF Len(rest) > 0 THEN bubbleDown([rest EXCEPT ![1] = last], 0) ELSE rest

\* line 166
peek(a) == a[1]

RECURSIVE InsertDesc(_, _)
\* x placed behind every element whose score is >= its own: the place a
\* stable sort by (x, y) => y.score - x.score gives it
InsertDesc(sorted, x) ==
  IF sorted = <<>> THEN <<x>>
  ELSE IF Head(sorted).score >= x.score THEN <<Head(sorted)>> \o InsertDesc(Tail(sorted), x)
       ELSE <<x>> \o sorted

RECURSIVE SortDesc(_, _)
SortDesc(a, n) == IF n = 0 THEN <<>> ELSE InsertDesc(SortDesc(a, n - 1), a[n])

\* lines 183-186: a.slice().sort((x, y) => y.score - x.score); Array.sort is stable
toArrayDesc(a) == SortDesc(a, Len(a))

\* ------------------------------------------------- top-K selection
\* the scan without the exclusion test of line 215
topKStep_NoExclude(heap, i, scores, K, exclude) ==
  LET mid == movieIds[i + 1]
      sc == scores[i]
  IN IF Len(heap) < K THEN push(heap, TopItem(mid, sc))
     ELSE IF sc > peek(heap).score THEN push(pop(heap), TopItem(mid, sc))
     ELSE heap

\* the scan replacing the minimum on an equal score too (>= for >)
topKStep_EvictOnTie(heap, i, scores, K, exclude) ==
  LET mid == movieIds[i + 1]
      sc == scores[i]
  IN IF mid \in exclude THEN heap
     ELSE IF Len(heap) < K THEN push(heap, TopItem(mid, sc))
     ELSE IF sc >= peek(heap).score THEN push(pop(heap), TopItem(mid, sc))
     ELSE heap

\* the scan with the comparison against the minimum made before the test
\* for room: a row that does not beat the minimum is dropped even while
\* the heap is not full
topKStep_SkipTies(heap, i, scores, K, exclude) ==
  LET mid == movieIds[i + 1]
      sc == scores[i]
  IN IF mid \in exclude THEN heap
     ELSE IF Len(heap) > 0 /\ ~(sc > peek(heap).score) THEN heap
     ELSE IF Len(heap) < K THEN push(heap, TopItem(mid, sc))
     ELSE push(pop(heap), TopItem(mid, sc))

\* lines 214-224: one iteration of the scan, for row i; the heap after it
topKStep(heap, i, scores, K, exclude) ==
  LET mid == movieIds[i + 1]
      sc == scores[i]
  IN IF mid \in exclude THEN heap
     ELSE IF Len(heap) < K THEN push(heap, TopItem(mid, sc))
     ELSE IF sc > peek(heap).score THEN push(pop(heap), TopItem(mid, sc))
     ELSE heap

RECURSIVE ScanFrom(_, _, _, _, _)
ScanFrom(heap, i, scores, K, exclude) ==
  IF i >= rows THEN heap
  ELSE ScanFrom(topKStep(heap, i, scores, K, exclude), i + 1, scores, K, exclude)

\* lines 210-228
topKFromScores(scores, K, exclude) == toArrayDesc(ScanFrom(<<>>, 0, scores, K, exclude))

\* ------------------------------------------------- TMDB payloads
\* TmdbPayload, lines 7-17, as normalised by lines 48-69 from a response
\* body; every field is a string token or null
Payload(tag) ==
  [title |-> "title" \o tag, poster_url |-> "poster" \o tag,
   backdrop_url |-> "backdrop" \o tag, overview |-> "overview" \o tag,
   year |-> "year" \o tag, director |-> "director" \o tag,
   runtime |-> "runtime" \o tag, original_language |-> "lang" \o tag,
   genres |-> "genres" \o tag]

\* a body without release_date, runtime and genres: those fields are null
SparsePayload(tag) ==
  [Payload(tag) EXCEPT !.year = NULL, !.runtime = NULL, !.genres = NULL]

\* the payloads a successful lookup of tid can produce: the provider need
\* not answer twice alike
PayloadsOf(tid) == {Payload(ToString(tid) \o "A"), SparsePayload(ToString(tid) \o "B")}

\* one answer per id, for the specification of overlapping requests
BurstPayloadsOf(tid) == {Payload(ToString(tid) \o "A")}

\* what payload?.x ?? null reads from a null payload
NullPayload ==
  [title |-> NULL, poster_url |-> NULL, backdrop_url |-> NULL, overview |-> NULL,
   year |-> NULL, director |-> NULL, runtime |-> NULL, original_language |-> NULL,
   genres |-> NULL]

\* movieIdToTmdb[String(t.movieId)] ?? null, lines 300 and 322
TmdbIdOf(mid) == IF mid \in DOMAIN movieIdToTmdb THEN movieIdToTmdb[mid] ELSE NULL_ID

\* truthiness of tmdbId in "tmdbId ? ... : null", line 301
Truthy(tid) == tid # NULL_ID /\ tid # 0

\* lines 303-317 and 323-337: a response entry; p is the payload the
\* metadata fields are read from
Entry(rank, t, p) ==
  [rank |-> rank, movieId |-> t.movieId, tmdbId |-> TmdbIdOf(t.movieId),
   score |-> toFixed6(t.score),
   title |-> p.title, poster_url |-> p.poster_url, backdrop_url |-> p.backdrop_url,
   overview |-> p.overview, year |-> p.year, director |-> p.director,
   runtime |-> p.runtime, original_language |-> p.original_language,
   genres |-> p.genres]

\* ------------------------------------------------- request bodies
\* rating records a client can send: movie 1 rated 5, movie 1 rated 1,
\* movie 2 rated 2,
\* movie "3.5" rated 3 (neutral, fractional id), movie 9 (not in the
\* catalog) rated 4, movie 4 rated 6 (out of range), a null entry, movie 1
\* with the rating "4" (a string), and movie "1" (a string) rated 4
RawRecords ==
  { RawRecord("object", TRUE, 2, TRUE, 5),
    RawRecord("object", TRUE, 2, TRUE, 1),
    RawRecord("object", TRUE, 4, TRUE, 2),
    RawRecord("object", TRUE, 7, TRUE, 3),
    RawRecord("object", TRUE, 18, TRUE, 4),
    RawRecord("object", TRUE, 8, TRUE, 6),
    RawRecord("null", FALSE, 0, FALSE, 0),
    RawRecord("object", TRUE, 2, FALSE, 4),
    RawRecord("object", FALSE, 2, TRUE, 4) }

Body(json, isArray, ratings) == [json |-> json, isArray |-> isArray, ratings |-> ratings]

SeqsUpTo(S, n) == UNION {[1..k -> S] : k \in 0..n}

\* every body: not JSON, JSON without a ratings array, or a ratings array
Bodies ==
  {Body(FALSE, FALSE, <<>>), Body(TRUE, FALSE, <<>>)}
    \cup {Body(TRUE, TRUE, rs) : rs \in SeqsUpTo(RawRecords, MaxRatings)}

\* the bodies of the requests that overlap in Spec: no rating, and one
\* liked movie
BurstBodies ==
  { Body(TRUE, TRUE, <<>>),
    Body(TRUE, TRUE, <<RawRecord("object", TRUE, 2, TRUE, 5)>>) }

\* ------------------------------------------------- state
Reqs == 1..MaxReqs

VARIABLES
  rpc,           \* per request: where POST stands
  body,          \* per request: the request body
  clean,         \* per request: POST's clean
  userVec,       \* per request: POST's u
  scoreVec,      \* per request: POST's scores
  topPool,       \* per request: POST's topPool
  out,           \* per request: mapWithLimit's out, slot -> entry, set slots only
  cursor,        \* per request: mapWithLimit's i
  workers,       \* per request: the worker() calls of mapWithLimit
  resp,          \* per request: the response of POST
  getResp,       \* the response of the last GET
  invoked,       \* history, per request: index -> number of calls of fn
  fetches,       \* history: tmdbId -> number of fetch() calls issued
  cacheWrites,   \* history: tmdbId -> number of tmdbCache.set() calls
  cacheReads,    \* history: number of tmdbCache.has() calls
  sel            \* the scan of topKFromScores, stepped (SpecTopK only)

vars ==
  <<art, store, LOADED, loads, TMDB_KEY, tmdbCache, rpc, body, clean, userVec, scoreVec,
    topPool, out, cursor, workers, resp, getResp, invoked, fetches, cacheWrites,
    cacheReads, sel>>

\* ------------------------------------------------- tmdbMovieFull
\* A worker() call and the callback it is running: pc is where it stands
\* ("fetching": awaiting fetch; "parsing": awaiting r.json(); "resolved":
\* the callback's result is ready; "returned"; "threw"), idx the index it
\* claimed, tid the tmdbId of items[idx], via the path tmdbMovieFull took,
\* fail how the lookup failed (if it did), has/payload what it returned.
Worker(pc, idx, tid, via, has, payload) ==
  [pc |-> pc, idx |-> idx, tid |-> tid, via |-> via, fail |-> "", has |-> has,
   payload |-> payload]

\* tmdbMovieFull without the cache test of line 39
tmdbMovieFullStart_NoCacheCheck(tid, cache, key) ==
  IF ~key THEN [pc |-> "resolved", via |-> "nokey", has |-> FALSE, payload |-> NullPayload]
  ELSE [pc |-> "fetching", via |-> "fetch", has |-> FALSE, payload |-> NullPayload]

\* tmdbMovieFull without the credential test of line 38
tmdbMovieFullStart_NoKeyCheck(tid, cache, key) ==
  IF tid \in DOMAIN cache
  THEN [pc |-> "resolved", via |-> "cache", has |-> TRUE, payload |-> cache[tid]]
  ELSE [pc |-> "fetching", via |-> "fetch", has |-> FALSE, payload |-> NullPayload]

\* lines 37-42, up to the first await: where the call stands, by which path
\* (via), and what it returns if it returns at once
tmdbMovieFullStart(tid, cache, key) ==
  IF ~key THEN [pc |-> "resolved", via |-> "nokey", has |-> FALSE, payload |-> NullPayload]
  ELSE IF tid \in DOMAIN cache
       THEN [pc |-> "resolved", via |-> "cache", has |-> TRUE, payload |-> cache[tid]]
       ELSE [pc |-> "fetching", via |-> "fetch", has |-> FALSE, payload |-> NullPayload]

\* line 71: tmdbCache.set(tmdbId, payload)
tmdbCacheSet(cache, tid, p) ==
  [x \in DOMAIN cache \cup {tid} |-> IF x = tid THEN p ELSE cache[x]]

\* ------------------------------------------------- POST, synchronous part
\* the whole pool as the enrichment window
enrichCount_All(pool) == Len(pool)

\* line 295
enrichCount(pool) == Min(ENRICH_LIMIT, Len(pool))
\* lines 296-297
HeadOf(pool) == SubSeq(pool, 1, enrichCount(pool))
TailOf(pool) == SubSeq(pool, enrichCount(pool) + 1, Len(pool))

\* lines 299-301: the enrichment callback for items[idx], up to its first await
StartFn(t, idx, cache, key) ==
  LET tid == TmdbIdOf(t.movieId)
  IN IF ~Truthy(tid) THEN Worker("resolved", idx, tid, "none", FALSE, NullPayload)
     ELSE LET c == tmdbMovieFullStart(tid, cache, key)
          IN Worker(c.pc, idx, tid, c.via, c.has, c.payload)

\* one worker per item, whatever the limit
WorkerCount_NoLimit(limit, n) == n

\* lines 247-250: the number of worker() calls
WorkerCount(limit, n) == Min(limit, n)

\* results appended in completion order
OutSlot_ByCompletion(idx, o) == Cardinality(DOMAIN o)

\* line 243: the slot that receives the result of items[idx]
OutSlot(idx, o) == idx

\* the calls a set of freshly started callbacks issued and the cache reads
\* they made
Issued(ws, tid) == Cardinality({w \in DOMAIN ws : ws[w].via = "fetch" /\ ws[w].tid = tid})
Reads(ws) == Cardinality({w \in DOMAIN ws : ws[w].via \in {"cache", "fetch"}})

NoResponse ==
  [status |-> "none", ok |-> FALSE, mode |-> NULL, ratedCount |-> 0, poolSize |-> 0,
   enrichedCount |-> 0, recs |-> <<>>]

\* an uncaught rejection of POST: the framework answers 500
ErrorResponse == [NoResponse EXCEPT !.status = "error"]

\* the response of GET: none yet
NoStatic == [status |-> "none", ok |-> FALSE, mode |-> NULL, count |-> 0, recs |-> <<>>]

NoLoads == [runs |-> 0, done |-> 0, late |-> 0]

\* the module as the process starts: nothing loaded
ModelUnloaded ==
  /\ store = Unloaded
  /\ LOADED = FALSE
  /\ loads = NoLoads

\* the module after one successful load of the files a
ModelLoaded(a) ==
  /\ store = loadModelOnce(Unloaded, FALSE, a).store
  /\ LOADED = TRUE
  /\ loads = [runs |-> 1, done |-> 1, late |-> 0]

Idle ==
  /\ tmdbCache = <<>>
  /\ rpc = [r \in Reqs |-> "idle"]
  /\ body = [r \in Reqs |-> Body(FALSE, FALSE, <<>>)]
  /\ clean = [r \in Reqs |-> <<>>]
  /\ userVec = [r \in Reqs |-> <<>>]
  /\ scoreVec = [r \in Reqs |-> <<>>]
  /\ getResp = NoStatic
  /\ invoked = [r \in Reqs |-> <<>>]
  /\ topPool = [r \in Reqs |-> <<>>]
  /\ out = [r \in Reqs |-> <<>>]
  /\ cursor = [r \in Reqs |-> 0]
  /\ workers = [r \in Reqs |-> <<>>]
  /\ resp = [r \in Reqs |-> NoResponse]
  /\ fetches = [t \in TmdbIds |-> 0]
  /\ cacheWrites = [t \in TmdbIds |-> 0]
  /\ cacheReads = 0

SelIdle == [pc |-> "off", scores |-> <<>>, K |-> 0, exclude |-> {}, i |-> 0,
            heap |-> <<>>, result |-> <<>>]

Init ==
  /\ art = GoodArt
  /\ ModelUnloaded
  /\ TMDB_KEY \in BOOLEAN
  /\ Idle
  /\ sel = SelIdle

\* one request, on the catalog or on its three-row part
InitOne ==
  /\ art \in {GoodArt, SmallArt}
  /\ ModelUnloaded
  /\ TMDB_KEY \in BOOLEAN
  /\ Idle
  /\ sel = SelIdle

\* ------------------------------------------------- actions
\* the executions of the load body after a call: all, the completed ones,
\* and the ones begun while LOADED was already set
Counted(l, loaded, res) ==
  [runs |-> l.runs + (IF res.ran THEN 1 ELSE 0),
   done |-> l.done + (IF res.ran /\ ~res.threw THEN 1 ELSE 0),
   late |-> l.late + (IF res.ran /\ loaded THEN 1 ELSE 0)]

\* lines 269-272: a request arrives; loadModelOnce() runs, then POST
\* awaits req.json().  A load that throws rejects POST.  Requests are
\* numbered in arrival order.
PostStart(r, B) ==
  /\ rpc[r] = "idle"
  /\ \A q \in Reqs : q < r => rpc[q] # "idle"
  /\ \E b \in B : body' = [body EXCEPT ![r] = b]
  /\ LET res == loadModelOnce(store, LOADED, art)
     IN /\ store' = res.store
        /\ LOADED' = res.LOADED
        /\ loads' = Counted(loads, LOADED, res)
        /\ rpc' = [rpc EXCEPT ![r] = IF res.threw THEN "loadfailed" ELSE "body"]
        /\ resp' = [resp EXCEPT ![r] = IF res.threw THEN ErrorResponse ELSE resp[r]]
  /\ UNCHANGED <<art, userVec, scoreVec, invoked, getResp,
                 TMDB_KEY, tmdbCache, clean, topPool, out, cursor, workers,
                 fetches, cacheWrites, cacheReads, sel>>

\* the three entries of data/recs_top100.json
StaticRecs == <<"static1", "static2", "static3">>

\* lines 256-267: GET answers from the static file
Get ==
  /\ getResp' = [status |-> "ok", ok |-> TRUE, mode |-> "static",
                 count |-> Min(GET_LIMIT, Len(StaticRecs)),
                 recs |-> SubSeq(StaticRecs, 1, Min(GET_LIMIT, Len(StaticRecs)))]
  /\ UNCHANGED <<art, store, LOADED, loads, TMDB_KEY, tmdbCache, rpc, body, clean,
                 userVec, scoreVec, topPool, out, cursor, workers, resp, invoked,
                 fetches, cacheWrites, cacheReads, sel>>

\* POST with an await between vector building and scoring: the first step
\* validates and builds the vector, a later one does the rest
PostCompute_AwaitAfterVector(r) ==
  /\ rpc[r] = "body"
  /\ IF DOMAIN userVec[r] = {}
     THEN /\ clean' = [clean EXCEPT ![r] = Clean(RatingsOf(body[r]))]
          /\ userVec' = [userVec EXCEPT ![r] = buildUserVector(Clean(RatingsOf(body[r])))]
          /\ UNCHANGED <<scoreVec, invoked, topPool, workers, cursor, fetches, cacheReads, rpc>>
     ELSE LET pool == topKFromScores(ScoresOf(userVec[r]), TOP_K_POOL, ExcludeOf(clean[r]))
              items == HeadOf(pool)
              nw == WorkerCount(TMDB_CONCURRENCY, Len(items))
              ws == [w \in 1..nw |-> StartFn(items[w], w - 1, tmdbCache, TMDB_KEY)]
          IN /\ scoreVec' = [scoreVec EXCEPT ![r] = ScoresOf(userVec[r])]
             /\ invoked' = [invoked EXCEPT ![r] =
                              [k \in 0..(Len(items) - 1) |-> IF k < nw THEN 1 ELSE 0]]
             /\ topPool' = [topPool EXCEPT ![r] = pool]
             /\ workers' = [workers EXCEPT ![r] = ws]
             /\ cursor' = [cursor EXCEPT ![r] = nw]
             /\ fetches' = [t \in TmdbIds |-> fetches[t] + Issued(ws, t)]
             /\ cacheReads' = cacheReads + Reads(ws)
             /\ rpc' = [rpc EXCEPT ![r] = "enrich"]
             /\ UNCHANGED <<clean, userVec>>
  /\ UNCHANGED <<art, store, loads, getResp,
                 TMDB_KEY, tmdbCache, LOADED, body, out, resp, cacheWrites, sel>>

\* lines 272-299 and 236-252: the body is read; validation, user vector,
\* scores, top-K, the split, and mapWithLimit up to its await: every
\* worker() call claims an index and runs its callback to the first await.
PostCompute(r) ==
  /\ rpc[r] = "body"
  /\ LET cl == Clean(RatingsOf(body[r]))
         exclude == ExcludeOf(cl)
         u == buildUserVector(cl)
         scores == ScoresOf(u)
         pool == topKFromScores(scores, TOP_K_POOL, exclude)
         items == HeadOf(pool)
         nw == WorkerCount(TMDB_CONCURRENCY, Len(items))
         ws == [w \in 1..nw |-> StartFn(items[w], w - 1, tmdbCache, TMDB_KEY)]
     IN /\ clean' = [clean EXCEPT ![r] = cl]
        /\ userVec' = [userVec EXCEPT ![r] = u]
        /\ scoreVec' = [scoreVec EXCEPT ![r] = scores]
        /\ invoked' = [invoked EXCEPT ![r] =
                         [k \in 0..(Len(items) - 1) |-> IF k < nw THEN 1 ELSE 0]]
        /\ topPool' = [topPool EXCEPT ![r] = pool]
        /\ workers' = [workers EXCEPT ![r] = ws]
        /\ cursor' = [cursor EXCEPT ![r] = nw]
        /\ fetches' = [t \in TmdbIds |-> fetches[t] + Issued(ws, t)]
        /\ cacheReads' = cacheReads + Reads(ws)
  /\ rpc' = [rpc EXCEPT ![r] = "enrich"]
  /\ UNCHANGED <<art, store, loads, getResp,
                 TMDB_KEY, tmdbCache, LOADED, body, out, resp, cacheWrites, sel>>

\* a rejected worker rejects Promise.all and with it POST (no try/catch on
\* the way); the other workers keep running
Reject(r) ==
  /\ rpc' = [rpc EXCEPT ![r] = IF rpc[r] = "enrich" THEN "failed" ELSE rpc[r]]
  /\ resp' = [resp EXCEPT ![r] = IF rpc[r] = "enrich" THEN ErrorResponse ELSE resp[r]]

\* line 42: fetch() rejects (network error); nothing catches it
FetchThrows(r, w) ==
  /\ workers[r][w].pc = "fetching"
  /\ workers' = [workers EXCEPT ![r][w].pc = "threw", ![r][w].fail = "neterr"]
  /\ Reject(r)
  /\ UNCHANGED <<art, store, loads, userVec, scoreVec, invoked, getResp,
                 TMDB_KEY, tmdbCache, LOADED, body, clean, topPool, out, cursor,
                 fetches, cacheWrites, cacheReads, sel>>

\* lines 42-44: the response is not ok; tmdbMovieFull returns null
FetchNotOk(r, w) ==
  /\ workers[r][w].pc = "fetching"
  /\ workers' = [workers EXCEPT ![r][w].pc = "resolved", ![r][w].fail = "notok"]
  /\ UNCHANGED <<art, store, loads, userVec, scoreVec, invoked, getResp,
                 TMDB_KEY, tmdbCache, LOADED, rpc, body, clean, topPool, out, cursor,
                 resp, fetches, cacheWrites, cacheReads, sel>>

\* lines 42-46: the response is ok; tmdbMovieFull awaits r.json()
FetchOk(r, w) ==
  /\ workers[r][w].pc = "fetching"
  /\ workers' = [workers EXCEPT ![r][w].pc = "parsing"]
  /\ UNCHANGED <<art, store, loads, userVec, scoreVec, invoked, getResp,
                 TMDB_KEY, tmdbCache, LOADED, rpc, body, clean, topPool, out, cursor,
                 resp, fetches, cacheWrites, cacheReads, sel>>

\* line 46: r.json() rejects (the body does not parse); nothing catches it
JsonThrows(r, w) ==
  /\ workers[r][w].pc = "parsing"
  /\ workers' = [workers EXCEPT ![r][w].pc = "threw", ![r][w].fail = "badjson"]
  /\ Reject(r)
  /\ UNCHANGED <<art, store, loads, userVec, scoreVec, invoked, getResp,
                 TMDB_KEY, tmdbCache, LOADED, body, clean, topPool, out, cursor,
                 fetches, cacheWrites, cacheReads, sel>>

\* lines 46-72: the body parses; the payload is built, stored and returned
JsonOk(r, w, P) ==
  /\ workers[r][w].pc = "parsing"
  /\ \E p \in P[workers[r][w].tid] :
       /\ tmdbCache' = tmdbCacheSet(tmdbCache, workers[r][w].tid, p)
       /\ workers' = [workers EXCEPT ![r][w].pc = "resolved", ![r][w].has = TRUE,
                                     ![r][w].payload = p]
  /\ cacheWrites' = [cacheWrites EXCEPT ![workers[r][w].tid] = @ + 1]
  /\ UNCHANGED <<art, store, loads, userVec, scoreVec, invoked, getResp,
                 TMDB_KEY, LOADED, rpc, body, clean, topPool, out, cursor, resp,
                 fetches, cacheReads, sel>>

\* lines 240-244 and 301-318: the callback's result arrives; the worker
\* stores the entry, claims the next index and either returns or runs the
\* next callback to its first await
WorkerResume(r, w) ==
  /\ workers[r][w].pc = "resolved"
  /\ LET me == workers[r][w]
         items == HeadOf(topPool[r])
         e == Entry(me.idx + 1, items[me.idx + 1], me.payload)
         slot == OutSlot(me.idx, out[r])
         idx == cursor[r]
         nxt == IF idx >= Len(items)
                THEN [me EXCEPT !.pc = "returned"]
                ELSE StartFn(items[idx + 1], idx, tmdbCache, TMDB_KEY)
         started == IF idx >= Len(items) THEN <<>> ELSE <<nxt>>
     IN /\ out' = [out EXCEPT ![r] =
                     [k \in DOMAIN out[r] \cup {slot} |-> IF k = slot THEN e ELSE out[r][k]]]
        /\ cursor' = [cursor EXCEPT ![r] = idx + 1]
        /\ workers' = [workers EXCEPT ![r][w] = nxt]
        /\ invoked' = [invoked EXCEPT ![r] =
                         [k \in DOMAIN invoked[r] |->
                            IF k = idx THEN invoked[r][k] + 1 ELSE invoked[r][k]]]
        /\ fetches' = [t \in TmdbIds |-> fetches[t] + Issued(started, t)]
        /\ cacheReads' = cacheReads + Reads(started)
  /\ UNCHANGED <<art, store, loads, userVec, scoreVec, getResp,
                 TMDB_KEY, tmdbCache, LOADED, rpc, body, clean, topPool, resp,
                 cacheWrites, sel>>

\* the tail read, after the await, from a pool kept in a module-level
\* variable: another request that selected a different pool in the
\* meantime has overwritten it
tailMinimal_SharedPool(pool) ==
  LET others == {q \in Reqs : Len(topPool[q]) > 0 /\ topPool[q] # pool}
      seen == IF others = {} THEN pool ELSE topPool[CHOOSE q \in others : TRUE]
  IN [n \in 1..Len(TailOf(seen)) |-> Entry(enrichCount(seen) + n, TailOf(seen)[n], NullPayload)]

\* the tail ranked from 1 again
tailMinimal_RankFromOne(pool) ==
  [n \in 1..Len(TailOf(pool)) |-> Entry(n, TailOf(pool)[n], NullPayload)]

\* lines 320-338
tailMinimal(pool) ==
  [n \in 1..Len(TailOf(pool)) |-> Entry(enrichCount(pool) + n, TailOf(pool)[n], NullPayload)]

\* out, read as the array mapWithLimit returns (a slot never set reads as
\* the entry of a null payload with rank 0)
headEnriched(o, n) ==
  [k \in 1..n |-> IF (k - 1) \in DOMAIN o THEN o[k - 1]
                  ELSE Entry(0, TopItem(0, 0), NullPayload)]

\* the flag falling back to "static" when no rating was accepted
PostMode_StaticWhenEmpty(cl) == IF Len(cl) = 0 THEN "static" ELSE "personalized"

\* line 344: the mode flag of POST's answer to the accepted list cl
PostMode(cl) == "personalized"

\* lines 252-253 and 320-349: every worker has returned; POST answers
PostReturn(r) ==
  /\ rpc[r] = "enrich"
  /\ \A w \in DOMAIN workers[r] : workers[r][w].pc = "returned"
  /\ LET he == headEnriched(out[r], Len(HeadOf(topPool[r])))
         recs == he \o tailMinimal(topPool[r])
     IN resp' = [resp EXCEPT ![r] =
                   [status |-> "ok", ok |-> TRUE, mode |-> PostMode(clean[r]),
                    ratedCount |-> Len(clean[r]), poolSize |-> Len(recs),
                    enrichedCount |-> Len(he), recs |-> recs]]
  /\ rpc' = [rpc EXCEPT ![r] = "done"]
  /\ UNCHANGED <<art, store, loads, userVec, scoreVec, invoked, getResp,
                 TMDB_KEY, tmdbCache, LOADED, body, clean, topPool, out, cursor, workers,
                 fetches, cacheWrites, cacheReads, sel>>

Next ==
  \/ \E r \in Reqs : PostStart(r, BurstBodies)
  \/ \E r \in Reqs : PostCompute(r)
  \/ \E r \in Reqs : \E w \in DOMAIN workers[r] : FetchThrows(r, w)
  \/ \E r \in Reqs : \E w \in DOMAIN workers[r] : FetchNotOk(r, w)
  \/ \E r \in Reqs : \E w \in DOMAIN workers[r] : FetchOk(r, w)
  \/ \E r \in Reqs : \E w \in DOMAIN workers[r] : JsonThrows(r, w)
  \/ \E r \in Reqs : \E w \in DOMAIN workers[r] : JsonOk(r, w, [t \in TmdbIds |-> BurstPayloadsOf(t)])
  \/ \E r \in Reqs : \E w \in DOMAIN workers[r] : WorkerResume(r, w)
  \/ \E r \in Reqs : PostReturn(r)

\* overlapping requests: bodies from BurstBodies, one payload per id
Spec == Init /\ [][Next]_vars

NextOne ==
  \/ Get
  \/ PostStart(1, Bodies)
  \/ PostCompute(1)
  \/ \E w \in DOMAIN workers[1] : FetchThrows(1, w)
  \/ \E w \in DOMAIN workers[1] : FetchNotOk(1, w)
  \/ \E w \in DOMAIN workers[1] : FetchOk(1, w)
  \/ \E w \in DOMAIN workers[1] : JsonThrows(1, w)
  \/ \E w \in DOMAIN workers[1] : JsonOk(1, w, [t \in TmdbIds |-> PayloadsOf(t)])
  \/ \E w \in DOMAIN workers[1] : WorkerResume(1, w)
  \/ PostReturn(1)

\* one request: every body, every payload
SpecOne == InitOne /\ [][NextOne]_vars

\* ------------------------------------------------- one request, scheduled
\* the worker() calls mapWithLimit can start (lines 247-250)
WorkerIds == 1..TMDB_CONCURRENCY

\* lines 42-46: the metadata call of worker w settles: fetch() resolves or
\* rejects and, for an ok response, r.json() resolves or rejects
CallSettles(r, w) ==
  /\ w \in DOMAIN workers[r]
  /\ \/ FetchThrows(r, w)
     \/ FetchNotOk(r, w)
     \/ FetchOk(r, w)
     \/ JsonThrows(r, w)
     \/ JsonOk(r, w, [t \in TmdbIds |-> BurstPayloadsOf(t)])

\* lines 240-244: the continuation of worker w after its await
Resumes(r, w) == w \in DOMAIN workers[r] /\ WorkerResume(r, w)

\* lines 272-299, as PostCompute, each stage read from the new state
PostComputeStaged(r) ==
  /\ rpc[r] = "body"
  /\ clean' = [clean EXCEPT ![r] = Clean(RatingsOf(body[r]))]
  /\ userVec' = [userVec EXCEPT ![r] = buildUserVector(clean'[r])]
  /\ scoreVec' = [scoreVec EXCEPT ![r] = ScoresOf(userVec'[r])]
  /\ topPool' = [topPool EXCEPT ![r] =
                   topKFromScores(scoreVec'[r], TOP_K_POOL, ExcludeOf(clean'[r]))]
  /\ workers' = [workers EXCEPT ![r] =
                   [w \in 1..WorkerCount(TMDB_CONCURRENCY, Len(HeadOf(topPool'[r]))) |->
                      StartFn(HeadOf(topPool'[r])[w], w - 1, tmdbCache, TMDB_KEY)]]
  /\ cursor' = [cursor EXCEPT ![r] = Len(workers'[r])]
  /\ invoked' = [invoked EXCEPT ![r] =
                   [k \in 0..(Len(HeadOf(topPool'[r])) - 1) |->
                      IF k < cursor'[r] THEN 1 ELSE 0]]
  /\ fetches' = [t \in TmdbIds |-> fetches[t] + Issued(workers'[r], t)]
  /\ cacheReads' = cacheReads + Reads(workers'[r])
  /\ rpc' = [rpc EXCEPT ![r] = "enrich"]
  /\ UNCHANGED <<art, store, loads, getResp,
                 TMDB_KEY, tmdbCache, LOADED, body, out, resp, cacheWrites, sel>>

\* PostComputeStaged takes exactly the steps of PostCompute
StagedSame == [][PostCompute(1) <=> PostComputeStaged(1)]_vars

\* the event loop runs every continuation that is ready (POST after
\* req.json(), a worker after its callback, POST after Promise.all), and
\* every metadata call that was issued settles
Fairness ==
  /\ WF_vars(PostComputeStaged(1))
  /\ WF_vars(PostReturn(1))
  /\ \A w \in WorkerIds : WF_vars(Resumes(1, w))
  /\ \A w \in WorkerIds : WF_vars(CallSettles(1, w))

NextEnrich ==
  \/ PostStart(1, BurstBodies)
  \/ PostCompute(1)
  \/ \E w \in WorkerIds : CallSettles(1, w)
  \/ \E w \in WorkerIds : Resumes(1, w)
  \/ PostReturn(1)

\* one request, with the scheduling of the event loop
SpecEnrich == InitOne /\ [][NextEnrich]_vars /\ Fairness

\* ------------------------------------------------- the selector, stepped
\* ids an exclusion set is drawn from: catalog ids and one that is not
ExclIds == {1, 3, 5, 9}

SelStart(scores, K, exclude) ==
  [pc |-> "scan", scores |-> scores, K |-> K, exclude |-> exclude, i |-> 0,
   heap |-> <<>>, result |-> <<>>]

InitTopK ==
  /\ art = GoodArt
  /\ ModelLoaded(GoodArt)
  /\ TMDB_KEY = TRUE
  /\ Idle
  /\ \E scores \in [0..(rows - 1) -> 0..MaxScore], K \in 1..MaxK, exclude \in SUBSET ExclIds :
       sel = SelStart(scores, K, exclude)

\* the iteration of lines 213-225 for row sel.i
SelAdvance ==
  /\ UNCHANGED <<art, store, loads, userVec, scoreVec, invoked, getResp,
                 TMDB_KEY, tmdbCache, LOADED, rpc, body, clean, topPool, out, cursor,
                 workers, resp, fetches, cacheWrites, cacheReads>>
  /\ sel' = [sel EXCEPT !.heap = topKStep(sel.heap, sel.i, sel.scores, sel.K, sel.exclude),
                     !.i = sel.i + 1]

SelCandidate == sel.pc = "scan" /\ sel.i < rows /\ movieIds[sel.i + 1] \notin sel.exclude

\* line 215: the row is excluded
SelSkip ==
  /\ sel.pc = "scan" /\ sel.i < rows /\ movieIds[sel.i + 1] \in sel.exclude
  /\ SelAdvance

\* lines 219-220: the heap is not full
SelPush ==
  /\ SelCandidate /\ Len(sel.heap) < sel.K
  /\ SelAdvance

\* lines 221-223: the score beats the minimum
SelReplace ==
  /\ SelCandidate /\ Len(sel.heap) >= sel.K /\ sel.scores[sel.i] > peek(sel.heap).score
  /\ SelAdvance

\* line 221: the score does not beat the minimum
SelKeep ==
  /\ SelCandidate /\ Len(sel.heap) >= sel.K /\ ~(sel.scores[sel.i] > peek(sel.heap).score)
  /\ SelAdvance

\* line 227
SelFinish ==
  /\ sel.pc = "scan" /\ sel.i >= rows
  /\ sel' = [sel EXCEPT !.pc = "done", !.result = toArrayDesc(sel.heap)]
  /\ UNCHANGED <<art, store, loads, userVec, scoreVec, invoked, getResp,
                 TMDB_KEY, tmdbCache, LOADED, rpc, body, clean, topPool, out, cursor,
                 workers, resp, fetches, cacheWrites, cacheReads>>

NextTopK == SelSkip \/ SelPush \/ SelReplace \/ SelKeep \/ SelFinish

\* topKFromScores on any score vector, K and exclusion set
SpecTopK == InitTopK /\ [][NextTopK]_vars

\* ------------------------------------------------- the load, alone
\* the files a deployment can find in data/: the shape file missing, right,
\* or declaring fewer rows or more columns than the matrix has; the matrix
\* missing, right, or cut short; the id list missing, right, one id
\* short, or with a repeated id; the tmdb map missing or right
LoadShapes ==
  { [ok |-> FALSE, rows |-> 0, cols |-> 0],
    [ok |-> TRUE, rows |-> ShapeRows, cols |-> ShapeCols],
    [ok |-> TRUE, rows |-> SmallRows, cols |-> ShapeCols],
    [ok |-> TRUE, rows |-> ShapeRows, cols |-> ShapeCols + 1] }
LoadFactors ==
  { [ok |-> FALSE, factors |-> <<>>],
    [ok |-> TRUE, factors |-> CatalogFactors],
    [ok |-> TRUE, factors |-> SubSeq(CatalogFactors, 1, Len(CatalogFactors) - ShapeCols)] }
LoadIds ==
  { [ok |-> FALSE, ids |-> <<>>],
    [ok |-> TRUE, ids |-> CatalogIds],
    [ok |-> TRUE, ids |-> SubSeq(CatalogIds, 1, Len(CatalogIds) - 1)],
    [ok |-> TRUE, ids |-> [CatalogIds EXCEPT ![Len(CatalogIds)] = CatalogIds[1]]] }
LoadArts ==
  { Artifacts(sh.ok, sh.rows, sh.cols, f.ok, f.factors, i.ok, i.ids, t, CatalogTmdb) :
      sh \in LoadShapes, f \in LoadFactors, i \in LoadIds, t \in BOOLEAN }

InitLoad ==
  /\ art \in LoadArts
  /\ ModelUnloaded
  /\ TMDB_KEY = TRUE
  /\ Idle
  /\ sel = SelIdle

\* the files of data/ are replaced by the right ones
Repair ==
  /\ art # GoodArt
  /\ art' = GoodArt
  /\ UNCHANGED <<store, LOADED, loads, TMDB_KEY, tmdbCache, rpc, body, clean,
                 userVec, scoreVec, topPool, out, cursor, workers, resp, getResp,
                 invoked, fetches, cacheWrites, cacheReads, sel>>

NextLoad ==
  \/ \E r \in Reqs : PostStart(r, BurstBodies)
  \/ Repair

\* requests up to their first await, on any files
SpecLoad == InitLoad /\ [][NextLoad]_vars

\* ================================================= properties
\* helpers of the properties
RECURSIVE SumOver(_, _)
SumOver(f, S) ==
  IF S = {} THEN 0
  ELSE LET x == CHOOSE y \in S : TRUE IN f[x] + SumOver(f, S \ {x})

\* all nine metadata fields of an entry are null
NullMeta(e) ==
  /\ e.title = NULL /\ e.poster_url = NULL /\ e.backdrop_url = NULL
  /\ e.overview = NULL /\ e.year = NULL /\ e.director = NULL
  /\ e.runtime = NULL /\ e.original_language = NULL /\ e.genres = NULL

\* the item ids of the records that pass validation: a number pair whose
\* rating is in [1,5], the id truncated
AcceptedIds(b) ==
  LET rs == IF b.json /\ b.isArray THEN b.ratings ELSE <<>>
  IN {Trunc(rs[n].m2) :
        n \in {m \in 1..Len(rs) : /\ rs[m].shape = "object" /\ rs[m].mnum /\ rs[m].rnum
                                  /\ rs[m].rating \in 1..5}}

Computed(r) == rpc[r] \in {"enrich", "done", "failed"}
Answered(r) == resp[r].status = "ok"
HeadLen(r) == Min(ENRICH_LIMIT, Len(topPool[r]))
InFlight(r) ==
  Cardinality({w \in DOMAIN workers[r] : workers[r][w].pc \in {"fetching", "parsing"}})

\* ------------------------------------------------- C1
\* C1: for every request, every item id that passes validation is in the
\* exclusion set, and neither the selected pool nor the returned recs
\* (head or tail) hold an entry whose movieId is in that set.
C1_Exclusion ==
  \A r \in Reqs :
    Computed(r) =>
      /\ AcceptedIds(body[r]) \subseteq ExcludeOf(clean[r])
      /\ \A k \in 1..Len(topPool[r]) : topPool[r][k].movieId \notin ExcludeOf(clean[r])
      /\ Answered(r) =>
           \A k \in 1..Len(resp[r].recs) :
             /\ resp[r].recs[k].movieId \notin AcceptedIds(body[r])
             /\ resp[r].recs[k].movieId \notin ExcludeOf(clean[r])

\* a response to a request that rated two catalog movies
C1_Witness ==
  \E r \in Reqs :
    /\ Answered(r)
    /\ Cardinality(AcceptedIds(body[r]) \cap {movieIds[k] : k \in 1..rows}) = 2
    /\ Len(resp[r].recs) = rows - 2

\* ------------------------------------------------- C2
SelCands == {i \in 0..(rows - 1) : movieIds[i + 1] \notin sel.exclude}

\* position of row i in the stable descending sort of the candidates
SelRefRank(i) ==
  Cardinality({j \in SelCands : \/ sel.scores[j] > sel.scores[i]
                                \/ sel.scores[j] = sel.scores[i] /\ j < i})

\* the brute-force reference: the first K of that sort
SelRefSet == {movieIds[i + 1] : i \in {j \in SelCands : SelRefRank(j) < sel.K}}

SelResultIds == {sel.result[k].movieId : k \in 1..Len(sel.result)}

SelNonIncreasing ==
  \A k \in 1..(Len(sel.result) - 1) : sel.result[k].score >= sel.result[k + 1].score

\* no omitted candidate ties with a member of the reference set
SelNoTieAtCut ==
  \A i \in SelCands, j \in SelCands :
    (movieIds[i + 1] \in SelRefSet /\ movieIds[j + 1] \notin SelRefSet)
      => sel.scores[i] # sel.scores[j]

\* C2 as stated: the returned set of items equals the set of the
\* brute-force reference (sort the non-excluded items by score descending,
\* keep the first K) and the sequence is in non-increasing score order.
C2_Original ==
  sel.pc = "done" => (SelResultIds = SelRefSet /\ SelNonIncreasing)

\* C2 amended: topKFromScores returns min(K, number of non-excluded
\* items) distinct non-excluded items, each with its own score, in
\* non-increasing score order; no omitted non-excluded item scores higher
\* than a returned one; and the set equals the reference set whenever no
\* omitted item ties with a member of the reference set.
C2_Amended ==
  sel.pc = "done" =>
    /\ SelNonIncreasing
    /\ Len(sel.result) = Min(sel.K, Cardinality(SelCands))
    /\ Cardinality(SelResultIds) = Len(sel.result)
    /\ \A k \in 1..Len(sel.result) :
         \E i \in SelCands : /\ movieIds[i + 1] = sel.result[k].movieId
                             /\ sel.scores[i] = sel.result[k].score
    /\ \A i \in SelCands :
         movieIds[i + 1] \notin SelResultIds
           => \A k \in 1..Len(sel.result) : sel.scores[i] <= sel.result[k].score
    /\ SelNoTieAtCut => SelResultIds = SelRefSet

\* a finished scan that kept another item than the reference among ties
C2_Witness ==
  /\ sel.pc = "done"
  /\ Len(sel.result) = sel.K
  /\ SelResultIds # SelRefSet

\* ------------------------------------------------- C3
\* C3: when the lookup of a head entry fails (network error, non-success
\* status, unparsable body), the request is not failed by it, and the
\* answer holds that entry with null metadata and ok = true.
C3_Claim ==
  \A r \in Reqs : \A w \in DOMAIN workers[r] :
    workers[r][w].fail # "" =>
      /\ resp[r].status # "error"
      /\ Answered(r) => (resp[r].ok /\ NullMeta(resp[r].recs[workers[r][w].idx + 1]))

\* ------------------------------------------------- C4
\* worker w of request r begins a callback in this step
CallBegins(r, w) ==
  /\ w \in DOMAIN workers'[r]
  /\ workers'[r][w].pc # "returned"
  /\ (w \notin DOMAIN workers[r] \/ workers'[r][w].idx # workers[r][w].idx)

\* C4: a tmdbMovieFull call that begins while tmdbCache holds its id
\* returns the cached payload at once and issues no outbound call.
C4_WarmHit ==
  [][\A r \in Reqs : \A w \in DOMAIN workers'[r] :
       (CallBegins(r, w) /\ workers'[r][w].tid \in DOMAIN tmdbCache)
         => /\ workers'[r][w].pc = "resolved"
            /\ workers'[r][w].has
            /\ workers'[r][w].payload = tmdbCache[workers'[r][w].tid]
            /\ fetches'[workers'[r][w].tid] = fetches[workers'[r][w].tid]]_vars

\* a request served from the cache that another, unfinished request filled
C4_Witness ==
  \E r \in Reqs, q \in Reqs :
    /\ r # q /\ rpc[q] = "enrich" /\ workers[q] # <<>>
    /\ \E w \in DOMAIN workers[r] :
         /\ workers[r][w].via = "cache"
         /\ fetches[workers[r][w].tid] = 1
         /\ \A v \in DOMAIN workers[r] : workers[r][v].via # "fetch"

\* ------------------------------------------------- C5
\* C5: every key of tmdbCache is written at most once.
C5_Claim == \A t \in TmdbIds : cacheWrites[t] <= 1

\* ------------------------------------------------- C6
\* C6: a lookup that ends in a failure leaves tmdbCache as it was and
\* returns "no data" (null) to its caller.
C6_Claim ==
  [][\A r \in Reqs : \A w \in DOMAIN workers[r] :
       (workers[r][w].fail = "" /\ workers'[r][w].fail # "")
         => /\ tmdbCache' = tmdbCache
            /\ workers'[r][w].pc = "resolved"
            /\ ~workers'[r][w].has]_vars

\* ------------------------------------------------- C7
\* C7: without a credential no outbound call is issued, the cache is
\* neither read nor written, and every entry stored or returned has all
\* metadata fields null.
C7_NoCredential ==
  ~TMDB_KEY =>
    /\ \A t \in TmdbIds : fetches[t] = 0 /\ cacheWrites[t] = 0
    /\ cacheReads = 0
    /\ tmdbCache = <<>>
    /\ \A r \in Reqs :
         /\ InFlight(r) = 0
         /\ \A k \in DOMAIN out[r] : NullMeta(out[r][k])
         /\ \A k \in 1..Len(resp[r].recs) : NullMeta(resp[r].recs[k])

\* without a credential, an answer whose head entries all have a tmdbId
C7_Witness ==
  /\ ~TMDB_KEY
  /\ \E r \in Reqs :
       /\ Answered(r)
       /\ \A k \in 1..HeadLen(r) : Truthy(resp[r].recs[k].tmdbId)

\* ------------------------------------------------- C8
\* C8: the metadata calls in flight for one mapWithLimit run never
\* exceed min(TMDB_CONCURRENCY, number of head items).
C8_Bounded ==
  \A r \in Reqs : InFlight(r) <= Min(TMDB_CONCURRENCY, HeadLen(r))

\* the limit is reached while a head item still waits for a worker
C8_Witness ==
  \E r \in Reqs :
    /\ InFlight(r) = TMDB_CONCURRENCY
    /\ HeadLen(r) > TMDB_CONCURRENCY
    /\ cursor[r] < HeadLen(r)

\* ------------------------------------------------- C9
\* slot k of out holds the entry of items[k]; recs follow the pool
InOrder(r) ==
  /\ \A k \in DOMAIN out[r] :
       /\ k \in 0..(HeadLen(r) - 1)
       /\ out[r][k].rank = k + 1
       /\ out[r][k].movieId = topPool[r][k + 1].movieId
  /\ Answered(r) =>
       /\ Len(resp[r].recs) = Len(topPool[r])
       /\ \A k \in 1..Len(resp[r].recs) :
            /\ resp[r].recs[k].rank = k
            /\ resp[r].recs[k].movieId = topPool[r][k].movieId

\* C9 as stated: slot i holds the result of items[i], and recs list the
\* pool in rank order with rank = position + 1 and the same movieId and
\* the same score as the selected item at that position.
C9_Original ==
  \A r \in Reqs :
    /\ InOrder(r)
    /\ Answered(r) =>
         \A k \in 1..Len(resp[r].recs) :
           SameNumber(resp[r].recs[k].score, topPool[r][k].score)

\* C9 amended: as C9, but the score of an entry is the selected item's
\* score rounded to six decimals (it differs from it by at most half of
\* 10^-6), not the score itself.
C9_Amended ==
  \A r \in Reqs :
    /\ InOrder(r)
    /\ Answered(r) =>
         \A k \in 1..Len(resp[r].recs) :
           2 * Abs(resp[r].recs[k].score * ScoreDen - topPool[r][k].score * 1000000)
             <= ScoreDen

\* an answer whose head was completed out of order: the worker of slot 1
\* is still the first one, slot 0 was filled after slot 1
C9_Witness ==
  \E r \in Reqs :
    /\ rpc[r] = "enrich"
    /\ DOMAIN out[r] = {1}
    /\ \E w \in DOMAIN workers[r] : workers[r][w].idx = 2

\* ------------------------------------------------- C10
\* C10: callbacks run only for the first min(ENRICH_LIMIT, pool size)
\* entries, at most that many outbound calls are issued for a request,
\* and every returned entry of rank > ENRICH_LIMIT has all metadata null
\* and the rank, item id, external id and score of its pool item.
C10_Window ==
  \A r \in Reqs :
    /\ \A w \in DOMAIN workers[r] : workers[r][w].idx < HeadLen(r)
    /\ DOMAIN out[r] \subseteq 0..(HeadLen(r) - 1)
    /\ SumOver(fetches, TmdbIds) <= SumOver([q \in Reqs |-> HeadLen(q)], Reqs)
    /\ Answered(r) =>
         \A k \in (ENRICH_LIMIT + 1)..Len(resp[r].recs) :
           /\ NullMeta(resp[r].recs[k])
           /\ resp[r].recs[k].rank = k
           /\ resp[r].recs[k].movieId = topPool[r][k].movieId
           /\ resp[r].recs[k].tmdbId = TmdbIdOf(topPool[r][k].movieId)

\* an answer with enriched head entries and a tail
C10_Witness ==
  \E r \in Reqs :
    /\ Answered(r)
    /\ Len(resp[r].recs) > ENRICH_LIMIT
    /\ \A k \in 1..ENRICH_LIMIT :
         Truthy(resp[r].recs[k].tmdbId) => ~NullMeta(resp[r].recs[k])
    /\ \E k \in 1..ENRICH_LIMIT : ~NullMeta(resp[r].recs[k])

\* ------------------------------------------------- C11
\* the row of catalog item m
RowOf(m) == CHOOSE i \in 0..(rows - 1) : movieIds[i + 1] = m

\* the positions of the accepted ratings that carry signal: the item is a
\* catalog item and the rating is not the neutral 3
Signal(cl) ==
  {n \in 1..Len(cl) : /\ \E i \in 0..(rows - 1) : movieIds[i + 1] = cl[n].movieId
                      /\ cl[n].rating # 3}

\* sum over the signal ratings of w * vector(item)[j], and of |w|
WeightedSum(cl, j) ==
  SumOver([n \in Signal(cl) |-> (cl[n].rating - 3) * Factor(RowOf(cl[n].movieId), j)],
          Signal(cl))
WeightSum(cl) == SumOver([n \in Signal(cl) |-> Abs(cl[n].rating - 3)], Signal(cl))

\* the scenario of C11: the three-row catalog and the ratings [(A, 5)]
Scenario(r) ==
  /\ Computed(r)
  /\ art = SmallArt
  /\ clean[r] = <<[movieId |-> 1, rating |-> 5]>>

\* C11: the user vector is sum(w_i * vector(item_i)) / sum(|w_i|) with
\* w_i = rating_i - 3, over the ratings of catalog items with w_i # 0 (the
\* zero vector when there is none); on the catalog A=[1,0], B=[0,1],
\* C=[1,1] with ratings [(A,5)] the vector is [1,0], B scores 0, C scores
\* 1, and top-1 excluding A is C with score 1.
C11_Formula ==
  \A r \in Reqs :
    Computed(r) =>
      /\ DOMAIN userVec[r] = 0..(cols - 1)
      /\ \A j \in 0..(cols - 1) :
           userVec[r][j] * (IF WeightSum(clean[r]) > 0 THEN WeightSum(clean[r]) ELSE 1)
             = WeightedSum(clean[r], j) * ScoreDen
      /\ Scenario(r) =>
           /\ userVec[r][0] = ScoreDen /\ userVec[r][1] = 0
           /\ scoreVec[r][1] = 0
           /\ scoreVec[r][2] = ScoreDen
           /\ topKFromScores(scoreVec[r], 1, {1}) = <<TopItem(3, ScoreDen)>>
           /\ topPool[r][1] = TopItem(3, ScoreDen)

\* the scenario, computed
C11_Witness == \E r \in Reqs : Scenario(r) /\ userVec[r][0] = ScoreDen

\* ------------------------------------------------- C12
\* the records of body b that pass validation
AcceptedRecords(b) ==
  LET rs == IF b.json /\ b.isArray THEN b.ratings ELSE <<>>
  IN {n \in 1..Len(rs) : /\ rs[n].shape = "object" /\ rs[n].mnum /\ rs[n].rnum
                         /\ rs[n].rating \in 1..5}

CatalogIdSet == {movieIds[i + 1] : i \in 0..(rows - 1)}

\* every accepted record of b is neutral or names no catalog item
NoSignal(b) ==
  \A n \in AcceptedRecords(b) :
    b.ratings[n].rating = 3 \/ Trunc(b.ratings[n].m2) \notin CatalogIdSet

NonExcluded(r) == CatalogIdSet \ AcceptedIds(body[r])

\* C12: for an empty rating list, or one in which every accepted rating is
\* 3 or names an item outside the catalog, the user vector is the zero
\* vector and every catalog item scores 0; every pool entry scores 0, and
\* when K is at least the number of non-excluded items the pool holds
\* every one of them.
C12_NoSignal ==
  \A r \in Reqs :
    (Computed(r) /\ NoSignal(body[r])) =>
      /\ \A j \in 0..(cols - 1) : userVec[r][j] = 0
      /\ \A i \in 0..(rows - 1) : scoreVec[r][i] = 0
      /\ \A k \in 1..Len(topPool[r]) : topPool[r][k].score = 0
      /\ TOP_K_POOL >= Cardinality(NonExcluded(r)) =>
           {topPool[r][k].movieId : k \in 1..Len(topPool[r])} = NonExcluded(r)

\* a neutral rating of one catalog item: the other items, as many as K,
\* tie at 0 and fill the pool
C12_Witness ==
  \E r \in Reqs :
    /\ Computed(r) /\ NoSignal(body[r])
    /\ Len(clean[r]) = 1 /\ clean[r][1].rating = 3
    /\ Cardinality(NonExcluded(r)) = TOP_K_POOL
    /\ Len(topPool[r]) = TOP_K_POOL

\* ------------------------------------------------- C13
\* every field of the store holds what one set of readable files gives
Populated ==
  \E a \in LoadArts :
    /\ a.shapeOk /\ a.factorsOk /\ a.idsOk /\ a.tmdbOk
    /\ rows = a.rows /\ cols = a.cols
    /\ itemFactors = a.factors
    /\ movieIds = a.ids
    /\ DOMAIN movieIdToIndex = {a.ids[k] : k \in 1..Len(a.ids)}
    /\ \A m \in DOMAIN movieIdToIndex : a.ids[movieIdToIndex[m] + 1] = m
    /\ movieIdToTmdb = a.tmdb

PastLoad(r) == rpc[r] \notin {"idle", "loadfailed"}

LoadedOnce ==
  /\ loads.done <= 1
  /\ loads.late = 0
  /\ LOADED <=> loads.done = 1
  /\ \A r \in Reqs : PastLoad(r) => (LOADED /\ Populated)

\* C13: the body of loadModelOnce runs to completion at most once and never
\* runs after its first success; from then on the store does not change,
\* so every request that gets past loadModelOnce finds the flag set and
\* the same store, every field of it assigned; a request whose load threw
\* does not get past it.
C13_OnceOnly ==
  [][/\ LoadedOnce'
     /\ LOADED => (LOADED' /\ store' = store /\ loads' = loads)]_vars

\* two requests past loadModelOnce after a single execution of its body
C13_Witness ==
  /\ \A r \in Reqs : PastLoad(r)
  /\ loads.runs = 1
  /\ Populated

\* a failed load, then new files, then a successful load
C13_Retry ==
  /\ rpc[1] = "loadfailed"
  /\ PastLoad(MaxReqs)
  /\ loads.runs = loads.done + 1

\* ------------------------------------------------- C14
\* the matrix has rows * cols floats (its byte length is rows * cols * 4)
\* and the id list has rows ids
WellFormed == Len(itemFactors) = rows * cols /\ Len(movieIds) = rows

\* C14: files whose matrix length does not fit the declared shape, or
\* whose id list length is not rows, make loadModelOnce fail: the store is
\* never marked loaded from them and no request gets past the load.
C14_Claim ==
  (LOADED \/ \E r \in Reqs : PastLoad(r)) => WellFormed

\* ------------------------------------------------- C15
\* the positions of the records of b whose rating lies in [1,5]
RatedInRange(b) ==
  LET rs == IF b.json /\ b.isArray THEN b.ratings ELSE <<>>
  IN {n \in 1..Len(rs) : rs[n].shape = "object" /\ rs[n].rating \in 1..5}

\* the k-th smallest element of a set of positions
Kth(P, k) == CHOOSE n \in P : Cardinality({m \in P : m < n}) = k - 1

\* cl lists the records of b at the positions P, in order, ids truncated
ListsExactly(cl, b, P) ==
  /\ Len(cl) = Cardinality(P)
  /\ \A k \in 1..Len(cl) :
       /\ cl[k].movieId = Trunc(b.ratings[Kth(P, k)].m2)
       /\ cl[k].rating = b.ratings[Kth(P, k)].rating

\* a request fails only through a worker that threw, never in validation
FailsOnlyInEnrichment(r) ==
  /\ rpc[r] # "loadfailed"
  /\ rpc[r] = "failed" => \E w \in DOMAIN workers[r] : workers[r][w].pc = "threw"

\* C15 as stated: whatever the body, validation does not fail the request;
\* the accepted list is exactly the records whose rating lies in [1,5],
\* ids truncated; a list with no accepted record gives the zero vector.
C15_Original ==
  \A r \in Reqs :
    /\ FailsOnlyInEnrichment(r)
    /\ Computed(r) =>
         /\ ListsExactly(clean[r], body[r], RatedInRange(body[r]))
         /\ Len(clean[r]) = 0 => \A j \in 0..(cols - 1) : userVec[r][j] = 0

\* C15 amended: whatever the body, validation does not fail the request;
\* the accepted list is exactly the records whose movieId and rating are
\* both of type number and whose rating lies in [1,5], ids truncated,
\* in the order sent; every other record (a null entry, a record with a
\* string or missing movieId or rating, a rating outside [1,5]) is dropped;
\* a list with no accepted record gives the zero vector.
C15_Amended ==
  \A r \in Reqs :
    /\ FailsOnlyInEnrichment(r)
    /\ Computed(r) =>
         /\ ListsExactly(clean[r], body[r], AcceptedRecords(body[r]))
         /\ Len(clean[r]) = 0 => \A j \in 0..(cols - 1) : userVec[r][j] = 0

\* a body of two records whose ratings lie in [1,5], one of them with a
\* fractional id and accepted, the other with a string field and dropped
C15_Witness ==
  \E r \in Reqs :
    /\ Computed(r)
    /\ Cardinality(RatedInRange(body[r])) = 2
    /\ Len(clean[r]) = 1
    /\ 2 * clean[r][1].movieId # body[r].ratings[Kth(AcceptedRecords(body[r]), 1)].m2

\* ------------------------------------------------- C16
\* C16: in every POST response, ratedCount is the number of accepted
\* records (duplicates and items outside the catalog included), poolSize is
\* the length of recs and equals min(TOP_K_POOL, number of non-excluded
\* catalog items), enrichedCount is min(ENRICH_LIMIT, poolSize), and the
\* ranks of recs are 1, 2, ..., poolSize in list order.
C16_Counters ==
  \A r \in Reqs :
    Answered(r) =>
      /\ resp[r].ratedCount = Cardinality(AcceptedRecords(body[r]))
      /\ resp[r].poolSize = Len(resp[r].recs)
      /\ resp[r].poolSize = Min(TOP_K_POOL, Cardinality(NonExcluded(r)))
      /\ resp[r].enrichedCount = Min(ENRICH_LIMIT, resp[r].poolSize)
      /\ \A k \in 1..Len(resp[r].recs) : resp[r].recs[k].rank = k

\* an answer to two accepted records, one of them outside the catalog,
\* with a pool longer than the enrichment window
C16_Witness ==
  \E r \in Reqs :
    /\ Answered(r)
    /\ resp[r].ratedCount = 2
    /\ Cardinality(AcceptedIds(body[r]) \cap CatalogIdSet) = 1
    /\ resp[r].enrichedCount = ENRICH_LIMIT
    /\ resp[r].poolSize > ENRICH_LIMIT

\* ------------------------------------------------- C17
\* C17: at any later moment, whatever other requests, cache writes and
\* enrichment steps have happened since, scoring the user vector of a
\* request again gives the score vector the request computed: the sum over
\* j of factor(i, j) * u[j] for every row i; the store is still what the
\* load made of the files and the user vector is still what the ratings
\* give.
C17_Deterministic ==
  \A r \in Reqs :
    Computed(r) =>
      /\ scoreVec[r] = ScoresOf(userVec[r])
      /\ \A i \in 0..(rows - 1) :
           scoreVec[r][i] =
             SumOver([j \in 0..(cols - 1) |-> Factor(i, j) * userVec[r][j]], 0..(cols - 1))
      /\ store = loadModelOnce(Unloaded, FALSE, art).store
      /\ userVec[r] = buildUserVector(clean[r])

\* two requests with the same non-zero user vector, the second scored
\* after the cache had been filled
C17_Witness ==
  \E r \in Reqs, q \in Reqs :
    /\ r # q /\ Computed(r) /\ Computed(q)
    /\ userVec[r] = userVec[q] /\ userVec[r][0] # 0
    /\ scoreVec[r] = scoreVec[q]
    /\ \E w \in DOMAIN workers[q] : workers[q][w].via = "cache" /\ workers[q][w].idx = w - 1

\* ------------------------------------------------- C18
\* C18 as stated: the mode flag of a response is "personalized" when at
\* least one rating is accepted, and "static" when none is (an empty or
\* fully invalid rating list sent to POST).
C18_Original ==
  \A r \in Reqs :
    Answered(r) =>
      /\ Len(clean[r]) >= 1 => resp[r].mode = "personalized"
      /\ Len(clean[r]) = 0 => resp[r].mode = "static"

\* C18 amended: the mode flag of every POST response is "personalized",
\* also when the rating list is empty or fully invalid (the ranking is
\* then the one of the zero user vector); "static" is the mode flag of
\* GET, which takes no ratings and answers from the static file.
C18_Amended ==
  /\ \A r \in Reqs : Answered(r) => resp[r].mode = "personalized"
  /\ getResp.status = "ok" =>
       /\ getResp.mode = "static"
       /\ getResp.count = Len(getResp.recs)
       /\ getResp.recs = SubSeq(StaticRecs, 1, Len(getResp.recs))

\* a POST answer to a list with no accepted record, and a GET answer
C18_Witness ==
  /\ getResp.status = "ok"
  /\ \E r \in Reqs :
       /\ Answered(r)
       /\ Len(RatingsOf(body[r])) > 0
       /\ Len(clean[r]) = 0

\* ------------------------------------------------- C19
\* no stage of request r has left a result
NoStageDone(r) ==
  /\ DOMAIN userVec[r] = {}
  /\ DOMAIN scoreVec[r] = {}
  /\ Len(topPool[r]) = 0
  /\ DOMAIN workers[r] = {}

\* every stage of request r up to the selection is complete
StagesDone(r) ==
  /\ userVec[r] = buildUserVector(clean[r])
  /\ scoreVec[r] = ScoresOf(userVec[r])
  /\ topPool[r] = topKFromScores(scoreVec[r], TOP_K_POOL, ExcludeOf(clean[r]))

\* metadata calls were issued for request r
CallsIssued(r) == \E w \in DOMAIN workers[r] : workers[r][w].via # "none"

\* C19: a request is never suspended between the start of vector building
\* and the end of selection: while it waits for its body no stage has
\* begun, and from its next suspension on the vector is built, all rows
\* are scored and the pool is selected; so no step of another request
\* falls between these stages, and metadata calls are issued only for a
\* request whose pool is selected.
C19_Stages ==
  \A r \in Reqs :
    /\ rpc[r] \in {"idle", "body"} => NoStageDone(r)
    /\ Computed(r) => StagesDone(r)
    /\ CallsIssued(r) => (Computed(r) /\ StagesDone(r))

\* two requests suspended in their metadata calls at once: the second ran
\* its stages while the first was suspended
C19_Witness ==
  \E r \in Reqs, q \in Reqs :
    /\ r # q
    /\ rpc[r] = "enrich" /\ InFlight(r) > 0
    /\ rpc[q] = "enrich" /\ InFlight(q) > 0
    /\ StagesDone(r) /\ StagesDone(q)

\* ------------------------------------------------- C20
\* no index was handed out twice, and the indices handed out so far are
\* the ones below the cursor
NeverTwice(r) ==
  \A k \in DOMAIN invoked[r] :
    /\ invoked[r][k] <= 1
    /\ invoked[r][k] = 1 <=> k < cursor[r]

\* no worker of request r will take another step
Quiescent(r) ==
  /\ Computed(r)
  /\ \A w \in DOMAIN workers[r] : workers[r][w].pc \in {"returned", "threw"}

\* C20: every index of items is claimed by exactly one worker and fn is
\* invoked exactly once for it: never twice, and, once the workers have
\* stopped, not zero times either.
C20_Claim ==
  \A r \in Reqs :
    /\ NeverTwice(r)
    /\ Quiescent(r) =>
         \A k \in 0..(HeadLen(r) - 1) : k \in DOMAIN invoked[r] /\ invoked[r][k] = 1

\* the part of C20 that holds: no index twice, and every index once when
\* no worker threw
C20_WithoutThrow ==
  \A r \in Reqs :
    /\ NeverTwice(r)
    /\ (Quiescent(r) /\ \A w \in DOMAIN workers[r] : workers[r][w].pc = "returned") =>
         \A k \in 0..(HeadLen(r) - 1) : k \in DOMAIN invoked[r] /\ invoked[r][k] = 1

\* ------------------------------------------------- C21
\* the pool the body b selects on the loaded model, whatever else runs
RankingOf(b) ==
  LET cl == Clean(RatingsOf(b))
  IN topKFromScores(ScoresOf(buildUserVector(cl)), TOP_K_POOL, ExcludeOf(cl))

\* the movieId, score and rank of the entries of recs
RankingIn(recs) ==
  [k \in 1..Len(recs) |->
     [movieId |-> recs[k].movieId, score |-> recs[k].score, rank |-> recs[k].rank]]

\* C21: the sequence of movieId, score and rank in the recs of a request
\* is the one its own rating list selects on the loaded model: position k
\* holds rank k, and the id and the (rounded) score of the k-th item of
\* that selection, whatever another request with other ratings did in
\* between.
C21_Isolation ==
  \A r \in Reqs :
    Answered(r) =>
      RankingIn(resp[r].recs) =
        [k \in 1..Len(RankingOf(body[r])) |->
           [movieId |-> RankingOf(body[r])[k].movieId,
            score |-> toFixed6(RankingOf(body[r])[k].score),
            rank |-> k]]

\* two answered requests with different ratings and different rankings,
\* one of them served metadata that the other put into the cache
C21_Witness ==
  \E r \in Reqs, q \in Reqs :
    /\ Answered(r) /\ Answered(q)
    /\ body[r] # body[q]
    /\ RankingIn(resp[r].recs) # RankingIn(resp[q].recs)
    /\ \E w \in DOMAIN workers[r] : workers[r][w].via = "cache"
    /\ \A t \in TmdbIds : fetches[t] <= 1

\* ------------------------------------------------- C22
\* the smallest score held in heap array h
MinOf(h) ==
  CHOOSE m \in {h[k].score : k \in 1..Len(h)} : \A k \in 1..Len(h) : m <= h[k].score

HeapIds(h) == {h[k].movieId : k \in 1..Len(h)}

\* at most K entries, none of an excluded item, no item twice
HeapBounded(s) ==
  /\ Len(s.heap) <= s.K
  /\ HeapIds(s.heap) \cap s.exclude = {}
  /\ Cardinality(HeapIds(s.heap)) = Len(s.heap)

\* a step of the scan on a full heap: the heap changes only for a
\* candidate that scores strictly more than its minimum, the candidate
\* then takes the place of one entry with the minimum score, and the
\* minimum does not decrease
FullStep ==
  (sel.pc = "scan" /\ Len(sel.heap) = sel.K /\ sel'.i = sel.i + 1) =>
    /\ sel'.heap # sel.heap =>
         /\ movieIds[sel.i + 1] \notin sel.exclude
         /\ sel.scores[sel.i] > MinOf(sel.heap)
         /\ \E k \in 1..Len(sel.heap) :
              /\ sel.heap[k].score = MinOf(sel.heap)
              /\ HeapIds(sel'.heap) =
                   (HeapIds(sel.heap) \ {sel.heap[k].movieId}) \cup {movieIds[sel.i + 1]}
    /\ sel.scores[sel.i] <= MinOf(sel.heap) => sel'.heap = sel.heap
    /\ MinOf(sel'.heap) >= MinOf(sel.heap)

\* C22: at every step of the scan the heap holds at most K entries, all
\* of non-excluded items; once it holds K entries a candidate replaces the
\* current minimum only if its score is strictly greater (an equal score
\* never evicts), and the minimum of the heap never decreases afterwards.
C22_BoundedHeap ==
  [][HeapBounded(sel') /\ FullStep]_vars

\* a full heap after a candidate that tied with its minimum was passed over
C22_Witness ==
  /\ sel.pc = "scan" /\ sel.i >= 1
  /\ sel.K >= 2 /\ Len(sel.heap) = sel.K
  /\ movieIds[sel.i] \notin sel.exclude
  /\ movieIds[sel.i] \notin HeapIds(sel.heap)
  /\ sel.scores[sel.i - 1] = MinOf(sel.heap)

\* ------------------------------------------------- C23
\* the positions of cl that rate item m
Occurrences(cl, m) == {n \in 1..Len(cl) : cl[n].movieId = m}

Repeated(cl) == \E m \in ExcludeOf(cl) : Cardinality(Occurrences(cl, m)) > 1

\* the weights of all occurrences of m added up, signed and unsigned
NetWeight(cl, m) ==
  SumOver([n \in Occurrences(cl, m) |-> cl[n].rating - 3], Occurrences(cl, m))
GrossWeight(cl, m) ==
  SumOver([n \in Occurrences(cl, m) |-> Abs(cl[n].rating - 3)], Occurrences(cl, m))

\* the catalog items rated in cl
RatedItems(cl) == ExcludeOf(cl) \cap CatalogIdSet

\* the ratings (A,5), (A,1)
Cancelling == <<[movieId |-> 1, rating |-> 5], [movieId |-> 1, rating |-> 1]>>

\* C23: when an item id occurs several times in the accepted rating list,
\* every occurrence adds its own weight to the accumulator and its own
\* |weight| to the denominator (no deduplication, no last-write-wins), and
\* the item is excluded; the ratings (A,5), (A,1) give the zero vector
\* with denominator 4.
C23_Duplicates ==
  \A r \in Reqs :
    (Computed(r) /\ Repeated(clean[r])) =>
      LET cl == clean[r]
          denom == SumOver([m \in RatedItems(cl) |-> GrossWeight(cl, m)], RatedItems(cl))
      IN /\ Accumulated(cl).denom = denom
         /\ \A j \in 0..(cols - 1) :
              /\ Accumulated(cl).u[j] =
                   SumOver([m \in RatedItems(cl) |-> NetWeight(cl, m) * Factor(RowOf(m), j)],
                           RatedItems(cl))
              /\ userVec[r][j] * (IF denom > 0 THEN denom ELSE 1)
                   = SumOver([m \in RatedItems(cl) |-> NetWeight(cl, m) * Factor(RowOf(m), j)],
                             RatedItems(cl)) * ScoreDen
         /\ \A k \in 1..Len(topPool[r]) : topPool[r][k].movieId \notin ExcludeOf(cl)
         /\ cl = Cancelling =>
              /\ Accumulated(cl).denom = 4
              /\ \A j \in 0..(cols - 1) : userVec[r][j] = 0

\* a request that rated A with 5 and then with 1, answered with A excluded
C23_Witness ==
  \E r \in Reqs :
    /\ Answered(r)
    /\ clean[r] = Cancelling
    /\ \A j \in 0..(cols - 1) : userVec[r][j] = 0
    /\ Len(resp[r].recs) > 0
    /\ \A k \in 1..Len(resp[r].recs) : resp[r].recs[k].movieId # 1

\* ------------------------------------------------- C24
\* movieIds and movieIdToIndex are inverse bijections between the row
\* indices 0..rows-1 and the item ids
InverseBijections ==
  /\ \A i \in 0..(rows - 1) :
       /\ i + 1 \in DOMAIN movieIds
       /\ movieIds[i + 1] \in DOMAIN movieIdToIndex
       /\ movieIdToIndex[movieIds[i + 1]] = i
  /\ \A m \in DOMAIN movieIdToIndex :
       /\ movieIdToIndex[m] \in 0..(rows - 1)
       /\ movieIdToIndex[m] + 1 \in DOMAIN movieIds
       /\ movieIds[movieIdToIndex[m] + 1] = m

\* C24: after a successful load, whatever identifier list the load
\* accepted, movieIds[movieIdToIndex(id)] = id for every id and
\* movieIdToIndex(movieIds[i]) = i for every row index i in [0, rows).
C24_Claim ==
  LOADED => InverseBijections

\* the same for the loads whose matrix and id list have the declared sizes
C24_SizedLists ==
  (LOADED /\ WellFormed) => InverseBijections

\* a store loaded from the right files, where the two maps are inverse
C24_GoodLoad ==
  /\ LOADED /\ art = GoodArt
  /\ InverseBijections

\* ------------------------------------------------- C25
\* every worker of request r has returned, every slot of out is filled and
\* POST has returned its response
Enriched(r) ==
  /\ Answered(r)
  /\ \A w \in DOMAIN workers[r] : workers[r][w].pc = "returned"
  /\ DOMAIN out[r] = 0..(HeadLen(r) - 1)
  /\ Len(resp[r].recs) = Len(topPool[r])

\* no callback of request r has rejected
NoneThrew(r) == \A w \in DOMAIN workers[r] : workers[r][w].pc # "threw"

\* C25: if every metadata call issued eventually completes, with success
\* or failure, then every worker of mapWithLimit eventually returns, every
\* slot of the output array is filled and POST eventually returns its
\* response.
C25_Terminates ==
  \A r \in Reqs : (rpc[r] = "enrich") ~> Enriched(r)

\* the part of C25 that holds: the same in the runs where no call rejects
C25_WithoutThrow ==
  \A r \in Reqs : ([]NoneThrew(r)) => ((rpc[r] = "enrich") ~> Enriched(r))

\* a request whose workers have all stopped, with a slot of out never set
\* and an error for answer
C25_Stuck ==
  \E r \in Reqs :
    /\ rpc[r] = "failed" /\ resp[r] = ErrorResponse
    /\ \A w \in DOMAIN workers[r] : workers[r][w].pc \in {"returned", "threw"}
    /\ DOMAIN out[r] # 0..(HeadLen(r) - 1)

====
